---- MODULE Spec2Model ----
(***************************************************************************)
(* genqrc (cmd/genqrc/main.go): resolution of the input paths into         *)
(* (label, content) pairs, packing, and the writing of qrc.go.             *)
(*                                                                         *)
(* main.go holds two revisions of the command.  variant = 1 is the         *)
(* revision of lines 1-386 (filepath.Join labels, *.pri skipped),          *)
(* variant = 2 the revision of lines 388-772 (path.Join labels).           *)
(*                                                                         *)
(* A string is a sequence of one-character strings, so that Clean, Join,   *)
(* Dir, Ext and ToSlash are computed character by character as the Go      *)
(* library computes them.                                                  *)
(***************************************************************************)
EXTENDS Integers, Sequences, FiniteSets, TLC

VARIABLES
    variant,    \* which revision of main.go runs
    goos,       \* the build's target: "linux" or "windows"
    subdirs,    \* flag.Args()
    doc,        \* what dir/res.qrc holds
    unreadable, \* the path the process has no permission to read, or <<>>
    prior,      \* qrc.go as it was before the run
    pc,         \* position in main/run/qrcPackResources
    idx,        \* index of the current element of `range subdirs`
    todo,       \* filepath.Walk: the names still to visit, in visit order
    rp,         \* qml.ResourcesPacker: the (label, data) pairs added
    err,        \* the error being returned, or NoErr
    resdata,    \* the result of qrcPackResources, or Nil
    qrcgo,      \* the file qrc.go in the working directory
    exit,       \* the process's exit code, -1 while running
    log,        \* history: the callback invocations and what each did
    first       \* history: the finished first run (used by SpecTwice)

vars == <<variant, goos, subdirs, doc, unreadable, prior, pc, idx, todo, rp,
          err, resdata, qrcgo, exit, log, first>>

----------------------------------------------------------------------------
(* Bounds of the model *)

MaxArgs == 2

----------------------------------------------------------------------------
(* Strings *)

\* error values; NoErr is Go's nil error
Err(kind, path) == [kind |-> kind, path |-> path]
NoErr == Err("none", <<>>)

RECURSIVE Concat(_)
Concat(ss) == IF ss = <<>> THEN <<>> ELSE Head(ss) \o Concat(Tail(ss))

Max(S) == CHOOSE m \in S : \A x \in S : x <= m

\* os.PathSeparator and os.IsPathSeparator
Separator == IF goos = "windows" THEN "\\" ELSE "/"
OsSeps == IF goos = "windows" THEN {"/", "\\"} ELSE {"/"}
SlashSeps == {"/"}

\* the non-empty components of p between separators
RECURSIVE Components(_, _)
Components(p, seps) ==
    IF p = <<>> THEN <<>>
    ELSE IF Head(p) \in seps THEN Components(Tail(p), seps)
    ELSE LET stops == {i \in 1..Len(p) : p[i] \in seps}
             n == IF stops = {} THEN Len(p)
                  ELSE (CHOOSE i \in stops : \A j \in stops : i <= j) - 1
         IN  <<SubSeq(p, 1, n)>> \o Components(SubSeq(p, n + 1, Len(p)), seps)

\* Clean's treatment of "." and "..": cs are the components still to read,
\* out the components kept so far
RECURSIVE Resolve(_, _, _)
Resolve(cs, out, rooted) ==
    IF cs = <<>> THEN out
    ELSE LET c == Head(cs) IN
         IF c = <<".">> THEN Resolve(Tail(cs), out, rooted)
         ELSE IF c = <<".", ".">> THEN
              IF out # <<>> /\ out[Len(out)] # <<".", ".">>
              THEN Resolve(Tail(cs), SubSeq(out, 1, Len(out) - 1), rooted)
              ELSE IF rooted THEN Resolve(Tail(cs), out, rooted)
              ELSE Resolve(Tail(cs), Append(out, c), rooted)
         ELSE Resolve(Tail(cs), Append(out, c), rooted)

RECURSIVE JoinComponents(_, _)
JoinComponents(cs, sep) ==
    IF cs = <<>> THEN <<>>
    ELSE IF Len(cs) = 1 THEN cs[1]
    ELSE cs[1] \o <<sep>> \o JoinComponents(Tail(cs), sep)

\* path.Clean (seps = {"/"}, sep = "/") and filepath.Clean (the OS's)
CleanWith(p, seps, sep) ==
    IF p = <<>> THEN <<".">>
    ELSE LET rooted == p[1] \in seps
             body == JoinComponents(Resolve(Components(p, seps), <<>>, rooted), sep)
         IN  IF rooted THEN <<sep>> \o body
             ELSE IF body = <<>> THEN <<".">> ELSE body

\* path.Join / filepath.Join of two elements
JoinWith(a, b, seps, sep) ==
    IF a = <<>> /\ b = <<>> THEN <<>>
    ELSE IF a = <<>> THEN CleanWith(b, seps, sep)
    ELSE CleanWith(a \o <<sep>> \o b, seps, sep)

\* path.Dir / filepath.Dir: Clean of everything up to the last separator
DirWith(p, seps, sep) ==
    LET stops == {i \in 1..Len(p) : p[i] \in seps}
    IN  CleanWith(IF stops = {} THEN <<>> ELSE SubSeq(p, 1, Max(stops)), seps, sep)

\* path.Ext / filepath.Ext: from the last "." of the last element
ExtWith(p, seps) ==
    LET marks == {i \in 1..Len(p) : p[i] = "." \/ p[i] \in seps}
    IN  IF marks = {} THEN <<>>
        ELSE IF p[Max(marks)] = "." THEN SubSeq(p, Max(marks), Len(p))
        ELSE <<>>

\* filepath.ToSlash
ToSlash(p) ==
    IF Separator = "/" THEN p
    ELSE [i \in 1..Len(p) |-> IF p[i] = Separator THEN "/" ELSE p[i]]

\* os.FileInfo.Name() of the file at p: its last element
InfoName(p) ==
    LET cs == Components(p, OsSeps)
    IN  IF cs = <<>> THEN p ELSE cs[Len(cs)]

----------------------------------------------------------------------------
(* The filesystem the tool runs on.  Keys are clean, "/"-separated paths    *)
(* relative to the working directory.                                      *)

Dot == <<".">>
QmlDir == <<"q", "m", "l", "d", "i", "r">>
ExtQmltypes == <<".", "q", "m", "l", "t", "y", "p", "e", "s">>
ExtPri == <<".", "p", "r", "i">>
ExtQrc == <<".", "q", "r", "c">>

NDir == <<"d", "i", "r">>
NSub == <<"s", "u", "b">>
NTree == <<"t", "r", "e", "e">>
NImages == <<"i", "m", "a", "g", "e", "s">>
NApng == <<"a", ".", "p", "n", "g">>
NBpri == <<"b", ".", "p", "r", "i">>
NIcon == <<"i", "c", "o", "n", ".", "p", "n", "g">>
NRes == <<"r", "e", "s", ".", "q", "r", "c">>
NTop == <<"m", ".", "q", "r", "c">>
NXqt == <<"x">> \o ExtQmltypes
NYtxt == <<"y", ".", "t", "x", "t">>
NMissing == <<"n", "x">>
\* tree\y.txt as typed with the other separator: names tree/y.txt where
\* '\' separates, and a file that does not exist where it does not
NBack == NTree \o <<"\\">> \o NYtxt

K(cs) == JoinComponents(cs, "/")

KDir == K(<<NDir>>)
KApng == K(<<NDir, NApng>>)
KRes == K(<<NDir, NRes>>)
KSub == K(<<NDir, NSub>>)
KBpri == K(<<NDir, NSub, NBpri>>)
KTree == K(<<NTree>>)
KQmldir == K(<<NTree, QmlDir>>)
KXqt == K(<<NTree, NXqt>>)
KYtxt == K(<<NTree, NYtxt>>)
KTop == K(<<NTop>>)

Directories == {Dot, KDir, KSub, KTree}

\* the bytes of every regular file
FileBytes ==
    (KApng :> <<1>>) @@ (KBpri :> <<2, 2>>) @@ (KRes :> <<6>>) @@
    (KQmldir :> <<4>>) @@ (KXqt :> <<5>>) @@ (KYtxt :> <<>>) @@ (KTop :> <<7, 0, 7>>)

Nodes == Directories \cup DOMAIN FileBytes

\* manifests: what encoding/xml decodes the file's bytes to
File(alias, name) == [Alias |-> alias, Name |-> name]
Resource(prefix, files) == [Prefix |-> prefix, Files |-> files]
Qrc(resources) == [ok |-> TRUE, Resources |-> resources]
Malformed == [ok |-> FALSE, Resources |-> <<>>]

\* <qresource prefix="images"><file alias="icon.png">a.png</file></qresource>
DocExample == Qrc(<<Resource(NImages, <<File(NIcon, NApng)>>)>>)
\* <qresource prefix="/">: two entries, no alias
DocTwo == Qrc(<<Resource(<<"/">>, <<File(<<>>, NApng), File(<<>>, K(<<NSub, NBpri>>))>>)>>)
\* no prefix, two entries sharing one label
DocDup == Qrc(<<Resource(<<>>, <<File(NIcon, NApng), File(NIcon, K(<<NSub, NBpri>>))>>)>>)
\* two groups: an entry labelled like the walked file tree/y.txt, and the
\* manifest file itself listed as an entry
DocGroups == Qrc(<<Resource(NTree, <<File(NYtxt, NApng)>>),
                   Resource(NDir, <<File(<<>>, NRes)>>)>>)
\* m.qrc: one entry labelled images/icon.png, like DocExample's
DocTop == Qrc(<<Resource(NImages, <<File(NIcon, KYtxt)>>)>>)

Docs == {Malformed, DocExample, DocTwo, DocDup, DocGroups}

XmlOf(key) == IF key = KRes THEN doc ELSE IF key = KTop THEN DocTop ELSE Malformed

\* the paths a run may be given, and the paths that may be unreadable
ArgPaths == {KDir, KTree, KRes, KTop, KYtxt, KQmldir, NBack, NMissing}
Faults == {<<>>, KApng, KRes, KSub}

\* the key of the node the OS resolves p to
\* the names the walk hands out and the input paths, spelt with either
\* separator, with the key each resolves to under each separator set
KnownNames ==
    ArgPaths \cup Nodes
    \cup {[i \in 1..Len(n) |-> IF n[i] = "/" THEN "\\" ELSE n[i]] : n \in Nodes}
KeyTable ==
    [g \in {"linux", "windows"} |->
        [p \in KnownNames |->
            CleanWith(p, IF g = "windows" THEN {"/", "\\"} ELSE {"/"}, "/")]]
KeyOf(p) ==
    IF p \in KnownNames THEN KeyTable[goos][p] ELSE CleanWith(p, OsSeps, "/")
Exists(p) == KeyOf(p) \in Nodes
IsDir(p) == KeyOf(p) \in Directories

\* byte order of the characters that occur in names
Alphabet == <<".", "/", "\\", "a", "b", "c", "d", "e", "g", "i", "l", "m", "n",
              "o", "p", "q", "r", "s", "t", "u", "x", "y">>
Ord(c) == CHOOSE i \in 1..Len(Alphabet) : Alphabet[i] = c

RECURSIVE Less(_, _)
Less(a, b) ==
    IF b = <<>> THEN FALSE
    ELSE IF a = <<>> THEN TRUE
    ELSE IF Head(a) = Head(b) THEN Less(Tail(a), Tail(b))
    ELSE Ord(Head(a)) < Ord(Head(b))

RECURSIVE Sorted(_)
Sorted(S) ==
    IF S = {} THEN <<>>
    ELSE LET m == CHOOSE x \in S : \A y \in S \ {x} : Less(x, y)
         IN  <<m>> \o Sorted(S \ {m})

\* the last element of a key
BaseOf(key) == LET cs == Components(key, SlashSeps) IN cs[Len(cs)]

\* the names in each directory, sorted as filepath.Walk's readDirNames sorts them
Listing ==
    [d \in Directories |->
        Sorted({BaseOf(n) : n \in {n \in Nodes \ {Dot} : DirWith(n, SlashSeps, "/") = d}})]

ChildNames(key) == Listing[key]

----------------------------------------------------------------------------
(* Library calls: os.Lstat, ioutil.ReadFile, xml.Unmarshal                 *)

\* history records
EvRead(path, ok) == [op |-> "read", path |-> path, ok |-> ok]
EvParse(name, ok, files) == [op |-> "parse", name |-> name, ok |-> ok, files |-> files]
EvAdd(label, source, data, from, name) ==
    [op |-> "add", label |-> label, source |-> source, data |-> data,
     from |-> from, name |-> name]
\* one callback invocation: the name visited, the index of the input path
\* being walked, whether Lstat and the directory read succeeded, and the
\* reads, parses and adds the callback made
Visited(name, root, ok, events) ==
    [name |-> name, root |-> root, ok |-> ok, events |-> events]

\* ioutil.ReadFile(p)
ReadFile(p) ==
    IF ~Exists(p) THEN [err |-> Err("open: no such file", p), data |-> <<>>]
    ELSE IF IsDir(p) THEN [err |-> Err("read: is a directory", p), data |-> <<>>]
    ELSE IF KeyOf(p) = unreadable
         THEN [err |-> Err("open: permission denied", p), data |-> <<>>]
    ELSE [err |-> NoErr, data |-> FileBytes[KeyOf(p)]]

\* os.Lstat(p), as far as the walk reads it: IsDir() and Name()
Lstat(p) ==
    IF ~Exists(p) THEN [err |-> Err("lstat: no such file", p), IsDir |-> FALSE, Name |-> <<>>]
    ELSE [err |-> NoErr, IsDir |-> IsDir(p), Name |-> InfoName(p)]

\* filepath.Walk's readDirNames(p)
ReadDirNames(p) ==
    IF KeyOf(p) = unreadable
    THEN [err |-> Err("open: permission denied", p), names |-> <<>>]
    ELSE [err |-> NoErr, names |-> ChildNames(KeyOf(p))]

----------------------------------------------------------------------------
(* qrcParseQrc                                                             *)

EmptyMap == [x \in {} |-> <<>>]

\* (mutant) the first value stored under a key is kept
MapPutKeepsFirst(out, k, v) ==
    [x \in DOMAIN out \cup {k} |-> IF x \in DOMAIN out THEN out[x] ELSE v]

\* out[k] = v on a Go map
MapPut(out, k, v) == [x \in DOMAIN out \cup {k} |-> IF x = k THEN v ELSE out[x]]

\* the file entries of the manifest in document order, each with its group's prefix
RECURSIVE Entries(_)
Entries(resources) ==
    IF resources = <<>> THEN <<>>
    ELSE [i \in 1..Len(Head(resources).Files) |->
             [Prefix |-> Head(resources).Prefix,
              Alias |-> Head(resources).Files[i].Alias,
              Name |-> Head(resources).Files[i].Name]]
         \o Entries(Tail(resources))

\* the key of out[...] for one file entry
EntryLabel(e) ==
    IF variant = 1
    THEN IF e.Alias # <<>>
         THEN JoinWith(e.Prefix, e.Alias, OsSeps, Separator)
         ELSE JoinWith(e.Prefix, e.Name, OsSeps, Separator)
    ELSE JoinWith(e.Prefix, IF e.Alias # <<>> THEN e.Alias ELSE e.Name, SlashSeps, "/")

\* dir := filepath.Dir(name) / path.Dir(name)
ManifestDir(name) ==
    IF variant = 1 THEN DirWith(name, OsSeps, Separator)
    ELSE DirWith(name, SlashSeps, "/")

\* the value of out[...] for one file entry
EntrySource(dir, e) ==
    IF variant = 1 THEN JoinWith(dir, e.Name, OsSeps, Separator)
    ELSE JoinWith(dir, e.Name, SlashSeps, "/")

\* the two range loops that fill out
RECURSIVE FillOut(_, _, _)
FillOut(es, dir, out) ==
    IF es = <<>> THEN out
    ELSE FillOut(Tail(es), dir, MapPut(out, EntryLabel(Head(es)), EntrySource(dir, Head(es))))

qrcParseQrc(name) ==
    LET rd == ReadFile(name)
        qrc == XmlOf(KeyOf(name))
        out == FillOut(Entries(qrc.Resources), ManifestDir(name), EmptyMap)
    IN  IF rd.err # NoErr
        THEN [err |-> rd.err, files |-> EmptyMap, events |-> <<EvRead(name, FALSE)>>]
        ELSE IF ~qrc.ok
        THEN [err |-> Err("xml: malformed", name), files |-> EmptyMap,
              events |-> <<EvRead(name, TRUE), EvParse(name, FALSE, EmptyMap)>>]
        ELSE [err |-> NoErr, files |-> out,
              events |-> <<EvRead(name, TRUE), EvParse(name, TRUE, out)>>]

----------------------------------------------------------------------------
(* The walk callback of qrcPackResources                                   *)

Result(e, adds, events) == [err |-> e, adds |-> adds, events |-> events]

\* (mutant) qmldir files are not recognised
IsQmldirNever(info) == FALSE

\* info.Name() == "qmldir"
IsQmldir(info) == info.Name = QmlDir

\* (mutant) no file is taken for a manifest
IsQrcNever(ext) == FALSE

\* case ext == ".qrc"
IsQrc(ext) == ext = ExtQrc

\* which case of the callback's switch is taken for the file at name
Dispatch(name, info) ==
    IF variant = 1
    THEN LET ext == ExtWith(name, OsSeps) IN
         IF info.IsDir THEN "dir"
         ELSE IF IsQmldir(info) THEN "skip"
         ELSE IF ext = ExtQmltypes THEN "skip"
         ELSE IF ext = ExtPri THEN "skip"
         ELSE IF IsQrc(ext) THEN "qrc"
         ELSE "default"
    ELSE IF info.IsDir THEN "dir"
         ELSE IF IsQmldir(info) THEN "skip"
         ELSE LET ext == ExtWith(name, SlashSeps) IN
              IF ext = ExtQmltypes THEN "skip"
              ELSE IF IsQrc(ext) THEN "qrc"
              ELSE "default"

\* (mutant) the bytes are not the file's
AddFileNoData(name) ==
    LET rd == ReadFile(name) IN
    IF rd.err # NoErr THEN Result(rd.err, <<>>, <<EvRead(name, FALSE)>>)
    ELSE Result(NoErr, <<[label |-> ToSlash(name), data |-> <<>>]>>,
                <<EvRead(name, TRUE),
                  EvAdd(ToSlash(name), name, <<>>, "walk", name)>>)

\* (mutant) the label is the name as the walk gives it
AddFileRawName(name) ==
    LET rd == ReadFile(name) IN
    IF rd.err # NoErr THEN Result(rd.err, <<>>, <<EvRead(name, FALSE)>>)
    ELSE Result(NoErr, <<[label |-> name, data |-> rd.data]>>,
                <<EvRead(name, TRUE), EvAdd(name, name, rd.data, "walk", name)>>)

\* (mutant) the label is the file's base name
AddFileBaseLabel(name) ==
    LET rd == ReadFile(name) IN
    IF rd.err # NoErr THEN Result(rd.err, <<>>, <<EvRead(name, FALSE)>>)
    ELSE Result(NoErr, <<[label |-> InfoName(name), data |-> rd.data]>>,
                <<EvRead(name, TRUE),
                  EvAdd(InfoName(name), name, rd.data, "walk", name)>>)

\* default: data, err := ioutil.ReadFile(name); rp.Add(filepath.ToSlash(name), data)
AddFile(name) ==
    LET rd == ReadFile(name) IN
    IF rd.err # NoErr THEN Result(rd.err, <<>>, <<EvRead(name, FALSE)>>)
    ELSE Result(NoErr, <<[label |-> ToSlash(name), data |-> rd.data]>>,
                <<EvRead(name, TRUE),
                  EvAdd(ToSlash(name), name, rd.data, "walk", name)>>)

\* for label, filename := range files, in the order the map yields the keys
RECURSIVE AddFiles(_, _, _, _)
AddFiles(order, files, name, acc) ==
    IF order = <<>> THEN acc
    ELSE LET label == Head(order)
             rd == ReadFile(files[label])
         IN  IF rd.err # NoErr
             THEN Result(rd.err, acc.adds, Append(acc.events, EvRead(files[label], FALSE)))
             ELSE AddFiles(Tail(order), files, name,
                      Result(NoErr,
                             Append(acc.adds, [label |-> label, data |-> rd.data]),
                             acc.events \o <<EvRead(files[label], TRUE),
                                 EvAdd(label, files[label], rd.data, "qrc", name)>>))

\* the orders in which range may yield the keys of a map
RangeOrders(files) ==
    {o \in [1..Cardinality(DOMAIN files) -> DOMAIN files] :
        \A i, j \in DOMAIN o : i # j => o[i] # o[j]}

\* case ".qrc": the outcomes, one for each order of the range over files
ProcessQrc(name) ==
    LET parsed == qrcParseQrc(name) IN
    IF parsed.err # NoErr
    THEN {Result(parsed.err, <<>>, parsed.events)}
    ELSE {AddFiles(o, parsed.files, name, Result(NoErr, <<>>, parsed.events)) :
            o \in RangeOrders(parsed.files)}

\* the switch of the callback: the possible outcomes
WalkCases(name, info) ==
    LET case == Dispatch(name, info) IN
    IF case = "qrc" THEN ProcessQrc(name)
    ELSE IF case = "default" THEN {AddFile(name)}
    ELSE {Result(NoErr, <<>>, <<>>)}

\* (mutant) the error the walk hands to the callback is dropped
WalkFnDropsErr(name, info, werr) ==
    IF werr # NoErr THEN {Result(NoErr, <<>>, <<>>)}
    ELSE WalkCases(name, info)

\* func(name string, info os.FileInfo, err error) error: the possible outcomes
WalkFn(name, info, werr) ==
    IF werr # NoErr THEN {Result(werr, <<>>, <<>>)}
    ELSE WalkCases(name, info)

----------------------------------------------------------------------------
(* qml.ResourcesPacker and qml.ParseResourcesString (package qml, not part *)
(* of cmd/genqrc): a length-prefixed stream of the pairs in insertion      *)
(* order, read back into a label -> content mapping, a later pair          *)
(* replacing an earlier one with the same label.                           *)

\* rp.Add(label, data), for each pair of adds in turn
AddAll(packer, adds) == packer \o adds

Code(c) == Ord(c)
Decode(n) == Alphabet[n]

PackEntry(e) ==
    <<Len(e.label)>> \o [i \in 1..Len(e.label) |-> Code(e.label[i])]
    \o <<Len(e.data)>> \o e.data

\* rp.Pack().Bytes()
Pack(packer) ==
    <<Len(packer)>> \o Concat([i \in 1..Len(packer) |-> PackEntry(packer[i])])

RECURSIVE UnpackEntries(_, _, _)
UnpackEntries(bs, n, out) ==
    IF n = 0 THEN out
    ELSE LET ll == bs[1]
             label == [i \in 1..ll |-> Decode(bs[1 + i])]
             dl == bs[ll + 2]
             data == SubSeq(bs, ll + 3, ll + 2 + dl)
         IN  UnpackEntries(SubSeq(bs, ll + 3 + dl, Len(bs)), n - 1,
                           [x \in DOMAIN out \cup {label} |->
                               IF x = label THEN data ELSE out[x]])

\* qml.ParseResourcesString(data), as the mapping it gives access to
Unpack(bs) == UnpackEntries(Tail(bs), Head(bs), EmptyMap)

----------------------------------------------------------------------------
(* qrc.go                                                                  *)

\* *packageName's default; $GOPACKAGE is taken to be unset
PackageName == "main"

Artifact(state, dirs, data) ==
    [state |-> state, pkg |-> PackageName, subdirs |-> dirs, data |-> data]

Absent == Artifact("absent", <<>>, <<>>)
\* the artifact of an earlier run
Old == Artifact("complete", <<KDir>>, <<255>>)
\* os.Create truncates
Truncated == Artifact("empty", <<>>, <<>>)
\* tmpl.Execute stopped by a write error: some proper prefix of the text
Partial == Artifact("partial", <<>>, <<>>)
\* tmpl.Execute(f, data) ran to the end
Rendered(dirs, data) == Artifact("complete", dirs, data)

----------------------------------------------------------------------------
(* The run                                                                 *)

NoFirst == [done |-> FALSE, rp |-> <<>>, resdata |-> <<>>]

ArgLists == UNION {[1..n -> ArgPaths] : n \in 0..MaxArgs}

Init ==
    /\ variant \in {1, 2}
    /\ goos \in {"linux", "windows"}
    /\ subdirs \in ArgLists
    /\ doc \in Docs
    /\ unreadable \in Faults
    /\ unreadable # <<>> => doc = DocTwo    \* one fault at a time
    \* dir/res.qrc has other contents only in runs that can reach it
    /\ doc # DocExample => {subdirs[i] : i \in DOMAIN subdirs} \cap {KDir, KRes} # {}
    /\ prior \in {Absent, Old}
    /\ qrcgo = prior
    /\ pc = "start"
    /\ idx = 0
    /\ todo = <<>>
    /\ rp = <<>>
    /\ err = NoErr
    /\ resdata = <<>>
    /\ exit = -1
    /\ log = <<>>
    /\ first = NoFirst

inputs == <<variant, goos, subdirs, doc, unreadable>>
env == <<inputs, prior, first>>

\* run: subdirs := flag.Args(); the length check; entering qrcPackResources
run ==
    /\ pc = "start"
    /\ IF Len(subdirs) = 0
       THEN /\ err' = Err("must provide at least one path", <<>>)
            /\ pc' = "exit"
            /\ UNCHANGED <<idx, todo>>
       ELSE /\ pc' = "walk"
            /\ idx' = 1
            /\ todo' = <<subdirs[1]>>
            /\ err' = err
    /\ UNCHANGED <<env, rp, resdata, qrcgo, exit, log>>

\* filepath.Walk visits the next name and calls the callback on it
Visit ==
    /\ pc = "walk"
    /\ todo # <<>>
    /\ LET name == Head(todo)
           info == Lstat(name)
           rdn == IF info.err = NoErr /\ info.IsDir THEN ReadDirNames(name)
                  ELSE [err |-> NoErr, names |-> <<>>]
           werr == IF info.err # NoErr THEN info.err ELSE rdn.err
           children == IF werr = NoErr
                       THEN [i \in 1..Len(rdn.names) |->
                                JoinWith(name, rdn.names[i], OsSeps, Separator)]
                       ELSE <<>>
       IN  \E r \in WalkFn(name, info, werr) :
              /\ rp' = AddAll(rp, r.adds)
              /\ log' = Append(log, Visited(name, idx, werr = NoErr, r.events))
              /\ IF r.err # NoErr
                 THEN /\ err' = r.err
                      /\ pc' = "exit"
                      /\ todo' = <<>>
                 ELSE /\ err' = err
                      /\ pc' = pc
                      /\ todo' = children \o Tail(todo)
    /\ UNCHANGED <<env, idx, resdata, qrcgo, exit>>

\* for _, subdir := range subdirs: the next element
NextSubdir ==
    /\ pc = "walk"
    /\ todo = <<>>
    /\ idx < Len(subdirs)
    /\ idx' = idx + 1
    /\ todo' = <<subdirs[idx + 1]>>
    /\ UNCHANGED <<env, pc, rp, err, resdata, qrcgo, exit, log>>

\* return rp.Pack().Bytes(), nil
PackAll ==
    /\ pc = "walk"
    /\ todo = <<>>
    /\ idx = Len(subdirs)
    /\ resdata' = Pack(rp)
    /\ pc' = "create"
    /\ UNCHANGED <<env, idx, todo, rp, err, qrcgo, exit, log>>

\* f, err := os.Create("qrc.go")
Create ==
    /\ pc = "create"
    /\ \/ /\ qrcgo' = Truncated
          /\ pc' = "execute"
          /\ err' = err
       \/ /\ err' = Err("create", <<>>)
          /\ pc' = "exit"
          /\ qrcgo' = qrcgo
    /\ UNCHANGED <<env, idx, todo, rp, resdata, exit, log>>

\* return tmpl.Execute(f, data)
Execute ==
    /\ pc = "execute"
    /\ \/ /\ qrcgo' = Rendered(subdirs, resdata)
          /\ err' = err
       \/ /\ qrcgo' = Partial
          /\ err' = Err("write", <<>>)
    /\ pc' = "exit"
    /\ UNCHANGED <<env, idx, todo, rp, resdata, exit, log>>

\* main: report the error and os.Exit(1), or return
main ==
    /\ pc = "exit"
    /\ exit' = IF err # NoErr THEN 1 ELSE 0
    /\ pc' = "done"
    /\ UNCHANGED <<env, idx, todo, rp, err, resdata, qrcgo, log>>

Next == run \/ Visit \/ NextSubdir \/ PackAll \/ Create \/ Execute \/ main

Spec == Init /\ [][Next]_vars

\* the tool is run a second time on the same arguments and filesystem
Rerun ==
    /\ pc = "done"
    /\ ~first.done
    /\ first' = [done |-> TRUE, rp |-> rp, resdata |-> resdata]
    /\ prior' = qrcgo
    /\ pc' = "start"
    /\ idx' = 0
    /\ todo' = <<>>
    /\ rp' = <<>>
    /\ err' = NoErr
    /\ resdata' = <<>>
    /\ exit' = -1
    /\ log' = <<>>
    /\ UNCHANGED <<inputs, qrcgo>>

NextTwice == Next \/ Rerun

SpecTwice == Init /\ [][NextTwice]_vars

----------------------------------------------------------------------------
(* Reading the history                                                     *)

Events == Concat([i \in 1..Len(log) |-> log[i].events])

Adds == SelectSeq(Events, LAMBDA e : e.op = "add")

UniqueLabels(packer) ==
    \A i, j \in DOMAIN packer : i # j => packer[i].label # packer[j].label

\* the run resolved and packed everything
Packed == resdata # <<>>

\* a read or a parse that failed
Failure(e) == e.op \in {"read", "parse"} /\ ~e.ok
FailedPath(e) == IF e.op = "read" THEN e.path ELSE e.name

\* what the callback invocation logged at i did
Segment(i) == log[i].events

\* the bindings the inputs declare, in resolution order: a walked file when
\* it is added, the entries of a manifest in document order when it is parsed
RECURSIVE DeclaredBy(_)
DeclaredBy(events) ==
    IF events = <<>> THEN <<>>
    ELSE LET e == Head(events)
             es == IF e.op = "parse" /\ e.ok
                   THEN Entries(XmlOf(KeyOf(e.name)).Resources) ELSE <<>>
         IN  (IF e.op = "add" /\ e.from = "walk"
              THEN <<[label |-> e.label, source |-> e.source, from |-> "walk"]>>
              ELSE [k \in 1..Len(es) |->
                       [label |-> EntryLabel(es[k]),
                        source |-> EntrySource(ManifestDir(e.name), es[k]),
                        from |-> "qrc"]])
             \o DeclaredBy(Tail(events))

Declared == DeclaredBy(Events)

----------------------------------------------------------------------------
(* Claims                                                                  *)

\* C1: a second run on the same arguments and an unchanged filesystem adds
\* the same (label, content) pairs in the same order and returns the same
\* bundle as the first run (stated for two runs that both resolve and pack
\* everything).
C1_Deterministic ==
    (first.done /\ first.resdata # <<>> /\ pc = "done" /\ Packed)
    => (rp = first.rp /\ resdata = first.resdata)

\* C2: when the labels added are unique, parsing the packed bytes gives
\* exactly the mapping from each added label to the bytes of its source file.
C2_RoundTrip ==
    (Packed /\ UniqueLabels(rp)) =>
        LET m == Unpack(resdata)
            adds == Adds
        IN  /\ DOMAIN m = {adds[i].label : i \in DOMAIN adds}
            /\ \A i \in DOMAIN adds : m[adds[i].label] = FileBytes[KeyOf(adds[i].source)]

C2_Witness ==
    /\ pc = "done" /\ err = NoErr /\ UniqueLabels(rp) /\ Len(rp) >= 3
    /\ \E i, j \in DOMAIN rp : rp[i].data = <<>> /\ Len(rp[j].data) = 2
    /\ KYtxt \in DOMAIN Unpack(resdata) /\ Unpack(resdata)[KYtxt] = <<>>

\* C3: of the bindings sharing a label, the one declared last in resolution
\* order (input path order, walk order, manifest file order) is the one whose
\* content the bundle holds under that label.
C3_LastWins ==
    Packed =>
        LET m == Unpack(resdata)
            d == Declared
        IN  /\ DOMAIN m = {d[i].label : i \in DOMAIN d}
            /\ \A i \in DOMAIN d :
                  (\A j \in DOMAIN d : j > i => d[j].label # d[i].label)
                  => m[d[i].label] = FileBytes[KeyOf(d[i].source)]

C3_Witness ==
    /\ pc = "done" /\ err = NoErr
    /\ LET d == Declared IN
       \E i, j \in DOMAIN d :
          /\ i < j
          /\ d[i].label = d[j].label
          /\ d[i].from = "walk" /\ d[j].from = "qrc"
          /\ FileBytes[KeyOf(d[i].source)] # FileBytes[KeyOf(d[j].source)]
          /\ Unpack(resdata)[d[j].label] = FileBytes[KeyOf(d[j].source)]

\* C4: a missing input path, an unreadable file or directory, or an
\* unreadable or malformed manifest is the last thing the run does: nothing
\* is read or added after it, qrcPackResources returns that error and no
\* bytes, qrc.go is left as it was, and the exit code is 1.
C4_FailurePropagation ==
    /\ \A i \in DOMAIN log :
          LET seg == Segment(i)
              failed == {k \in DOMAIN seg : Failure(seg[k])}
          IN  (~log[i].ok \/ failed # {}) =>
                 /\ i = Len(log)
                 /\ ~log[i].ok => seg = <<>> /\ err.path = log[i].name
                 /\ \A k \in failed : k = Len(seg) /\ err.path = FailedPath(seg[k])
                 /\ err # NoErr
                 /\ pc \in {"exit", "done"}
                 /\ resdata = <<>>
                 /\ qrcgo = prior
                 /\ pc = "done" => exit = 1
    /\ (pc = "done" /\ \E i \in DOMAIN subdirs : ~Exists(subdirs[i])) =>
          /\ err # NoErr /\ exit = 1 /\ resdata = <<>> /\ qrcgo = prior

C4_Witness ==
    /\ pc = "done" /\ exit = 1 /\ rp # <<>>
    /\ prior = Old /\ qrcgo = Old
    /\ log # <<>> /\ Segment(Len(log)) # <<>>
    /\ Failure(Segment(Len(log))[Len(Segment(Len(log)))])
    /\ idx < Len(subdirs)

\* C5: after run, qrc.go is either the complete artifact embedding the whole
\* bundle or exactly what it was before the run.
C5_AllOrNothing ==
    pc = "done" => \/ qrcgo = prior
                   \/ err = NoErr /\ Packed /\ qrcgo = Rendered(subdirs, resdata)

\* the label and the source file the manifest format gives entry e of the
\* manifest at name: a slash-joined label, a file beside the manifest
SlashLabel(e) ==
    JoinWith(e.Prefix, IF e.Alias # <<>> THEN e.Alias ELSE e.Name, SlashSeps, "/")
BesideManifest(name, e) ==
    KeyOf(JoinWith(DirWith(name, OsSeps, Separator), e.Name, OsSeps, Separator))

\* C6: parsing a manifest yields, for every file entry (not shadowed by a
\* later entry with the same label), the binding join(prefix, alias or file
\* name) -> join(directory of the manifest, file name), and nothing else;
\* dir/res.qrc with prefix images and a.png aliased icon.png yields exactly
\* images/icon.png -> dir/a.png.
C6_ManifestExpansion ==
    LET events == Events IN
    \A i \in DOMAIN events :
        (events[i].op = "parse" /\ events[i].ok) =>
            LET name == events[i].name
                files == events[i].files
                es == Entries(XmlOf(KeyOf(name)).Resources)
            IN  /\ DOMAIN files = {SlashLabel(es[k]) : k \in DOMAIN es}
                /\ \A k \in DOMAIN es :
                      (\A n \in DOMAIN es : n > k => SlashLabel(es[n]) # SlashLabel(es[k]))
                      => KeyOf(files[SlashLabel(es[k])]) = BesideManifest(name, es[k])
                /\ (KeyOf(name) = KRes /\ doc = DocExample) =>
                      /\ DOMAIN files = {K(<<NImages, NIcon>>)}
                      /\ KeyOf(files[K(<<NImages, NIcon>>)]) = KApng

\* a regular file the walk does not skip and does not parse
RegularFile(name) == KeyOf(name) \in DOMAIN FileBytes
Ordinary(name, skipped) ==
    LET key == KeyOf(name) IN
    /\ key \in DOMAIN FileBytes
    /\ BaseOf(key) # QmlDir
    /\ ExtWith(key, SlashSeps) \notin skipped \cup {ExtQrc}

\* the callback invocation logged at i read the file it visited and added
\* exactly one binding: its slash-form path -> its bytes
AddedOnce(i) ==
    LET name == log[i].name
        key == KeyOf(name)
        seg == Segment(i)
    IN  /\ seg # <<>>
        /\ seg[1].op = "read" /\ seg[1].path = name
        /\ seg[1].ok =>
              /\ Len(seg) = 2
              /\ seg[2].op = "add" /\ seg[2].from = "walk"
              /\ seg[2].label = key
              /\ seg[2].source = name
              /\ seg[2].data = FileBytes[key]
              /\ \E k \in DOMAIN rp : rp[k] = [label |-> key, data |-> FileBytes[key]]
        /\ ~seg[1].ok => Len(seg) = 1

\* C7: a walk never adds a file named qmldir, a *.qmltypes file or a
\* directory; walking tree (qmldir, x.qmltypes, y.txt) adds y.txt only.
C7_Exclusion ==
    /\ LET adds == Adds IN
       \A i \in DOMAIN adds :
          LET key == KeyOf(adds[i].source) IN
          /\ key \notin Directories
          /\ adds[i].from = "walk" =>
                /\ BaseOf(key) # QmlDir
                /\ ExtWith(key, SlashSeps) # ExtQmltypes
    /\ (subdirs = <<KTree>> /\ Packed) =>
          rp = <<[label |-> KYtxt, data |-> FileBytes[KYtxt]]>>

C7_Witness ==
    /\ subdirs = <<KTree>> /\ pc = "done" /\ err = NoErr
    /\ \E i \in DOMAIN log : KeyOf(log[i].name) = KQmldir
    /\ \E i \in DOMAIN log : KeyOf(log[i].name) = KXqt
    /\ Unpack(resdata) = (KYtxt :> FileBytes[KYtxt])

\* C8 as claimed: every regular file visited that is not named qmldir, has
\* not the extension .qmltypes and is not a manifest yields exactly one
\* binding, its slash-form path -> its bytes; no other extension is skipped.
C8_OrdinaryFiles ==
    \A i \in DOMAIN log :
        (log[i].ok /\ Ordinary(log[i].name, {ExtQmltypes}))
        => AddedOnce(i)

\* the extensions the revision skips: its NOTES name them
SkippedExts == IF variant = 1 THEN {ExtQmltypes, ExtPri} ELSE {ExtQmltypes}

\* C8 amended: ... and, in the revision of lines 1-386, has not the extension
\* .pri ...; a visited file is skipped only if it is named qmldir or has one
\* of these extensions.
C8_OrdinaryFilesAmended ==
    \A i \in DOMAIN log :
        LET key == KeyOf(log[i].name) IN
        (log[i].ok /\ key \in DOMAIN FileBytes) =>
            /\ Ordinary(key, SkippedExts) => AddedOnce(i)
            /\ Segment(i) = <<>> =>
                  \/ BaseOf(key) = QmlDir
                  \/ ExtWith(key, SlashSeps) \in SkippedExts

C8_Witness ==
    /\ pc = "done" /\ err = NoErr /\ goos = "windows"
    /\ \E i \in DOMAIN log :
          /\ KeyOf(log[i].name) = KApng /\ log[i].name # KApng
          /\ AddedOnce(i) /\ Len(Segment(i)) = 2
    /\ \E i \in DOMAIN log :
          /\ KeyOf(log[i].name) = KBpri /\ Segment(i) = <<>>
    /\ \E k \in DOMAIN rp : rp[k] = [label |-> KApng, data |-> FileBytes[KApng]]

\* the callback invocation logged at i was given an input path as it was typed
DirectArg(i) == log[i].name = subdirs[log[i].root]
DirectManifest(i) ==
    /\ DirectArg(i) /\ log[i].ok /\ RegularFile(log[i].name)
    /\ ExtWith(KeyOf(log[i].name), SlashSeps) = ExtQrc

\* C9 as claimed: an input path naming a manifest is parsed, and the
\* manifest's own bytes are never added under its own path.
C9_DirectManifest ==
    \A i \in DOMAIN log :
        DirectManifest(i) =>
            \A k \in DOMAIN Segment(i) :
                Segment(i)[k].op = "add" =>
                    ~(/\ Segment(i)[k].label = ToSlash(log[i].name)
                      /\ KeyOf(Segment(i)[k].source) = KeyOf(log[i].name))

\* C9 amended: an input path naming a manifest is parsed as a manifest and
\* its entries become the bindings; the manifest is never added by the
\* ordinary-file rule, so its own bytes are bundled only where one of its
\* entries names the manifest file itself.
C9_DirectManifestAmended ==
    \A i \in DOMAIN log :
        DirectManifest(i) =>
            LET seg == Segment(i)
                adds == SelectSeq(seg, LAMBDA e : e.op = "add")
            IN  /\ seg # <<>> /\ seg[1].op = "read" /\ seg[1].path = log[i].name
                /\ seg[1].ok => Len(seg) >= 2 /\ seg[2].op = "parse"
                                /\ seg[2].name = log[i].name
                /\ \A k \in DOMAIN adds :
                      /\ adds[k].from = "qrc"
                      /\ adds[k].label \in DOMAIN seg[2].files
                      /\ adds[k].source = seg[2].files[adds[k].label]
                /\ (\A k \in DOMAIN seg : ~Failure(seg[k])) =>
                      /\ Len(adds) = Cardinality(DOMAIN seg[2].files)
                      /\ {adds[k].label : k \in DOMAIN adds} = DOMAIN seg[2].files
                      /\ \A k \in DOMAIN adds :
                            \E n \in DOMAIN rp :
                               rp[n] = [label |-> adds[k].label,
                                        data |-> FileBytes[KeyOf(adds[k].source)]]

C9_Witness ==
    /\ pc = "done" /\ err = NoErr /\ doc = DocGroups /\ subdirs = <<KRes>>
    /\ Len(Adds) = 2
    /\ \E k \in DOMAIN Adds : KeyOf(Adds[k].source) = KRes /\ Adds[k].from = "qrc"

\* C10: a .qrc file found beneath a directory given as an input path, and not
\* itself an input path, is not parsed, and no binding comes from its entries.
C10_WalkedManifestNotParsed ==
    LET events == Events IN
    \A i \in DOMAIN events :
        /\ events[i].op = "parse"
           => \E k \in DOMAIN subdirs : subdirs[k] = events[i].name
        /\ (events[i].op = "add" /\ events[i].from = "qrc")
           => \E k \in DOMAIN subdirs : subdirs[k] = events[i].name

\* the callback invocation logged at i was given an input path that names an
\* existing regular file which is not a manifest
DirectFile(i) ==
    /\ DirectArg(i) /\ log[i].ok /\ RegularFile(log[i].name)
    /\ ExtWith(KeyOf(log[i].name), SlashSeps) # ExtQrc

\* the invocation logged at i added one binding: the input path as typed,
\* in slash form -> the file's bytes
DirectAdded(i) ==
    LET seg == Segment(i) IN
    /\ AddedOnce(i)
    /\ Len(seg) = 2 => seg[2].label = ToSlash(subdirs[log[i].root])

\* C11 as claimed: every input path naming an existing regular file that is
\* not a manifest, whatever its base name or extension, yields exactly one
\* binding: the path as typed, in slash form -> the file's bytes.
C11_SingleFile ==
    \A i \in DOMAIN log : DirectFile(i) => DirectAdded(i)

\* C11 amended: ... that is not a manifest, is not named qmldir and has none
\* of the extensions the revision skips, yields exactly one binding ...; an
\* input path naming a file called qmldir or with such an extension yields
\* no binding and no error.
C11_SingleFileAmended ==
    \A i \in DOMAIN log :
        DirectFile(i) =>
            IF Ordinary(KeyOf(log[i].name), SkippedExts)
            THEN DirectAdded(i)
            ELSE Segment(i) = <<>>

C11_Witness ==
    /\ pc = "done" /\ err = NoErr /\ goos = "windows"
    /\ subdirs = <<NBack, KQmldir>>
    /\ Len(log) = 2 /\ DirectFile(1) /\ DirectFile(2)
    /\ Len(Segment(1)) = 2 /\ Segment(1)[2].label = KYtxt
    /\ Segment(1)[2].source = NBack
    /\ Segment(2) = <<>>
    /\ Unpack(resdata) = (KYtxt :> FileBytes[KYtxt])

\* a label as the resource model describes it: slash separated, relative,
\* no leading slash
WellFormedLabel(label) ==
    /\ label # <<>>
    /\ label[1] # "/"
    /\ \A i \in DOMAIN label : label[i] # "\\"

\* C12: every label passed to the packer, from a walked file, a directly
\* named file or a manifest entry, is forward-slash separated and relative
\* and does not begin with a slash.
C12_LabelWellFormed ==
    LET adds == Adds IN
    \A i \in DOMAIN adds : WellFormedLabel(adds[i].label)

====
